---- MODULE Spec2Model ----
(***************************************************************************)
(* Model of the Minecraft server-status bot (src/bot.py): the periodic     *)
(* check_server cycle (probe, debounce, rate-limited announcement), the    *)
(* protocol resolution get_status with its two probes, and the manual      *)
(* !server command cmd_server, which runs concurrently with the cycle on   *)
(* the same event loop and interleaves with it at every await.  Two        *)
(* smaller specifications stand beside it: SpecResolve, one call of        *)
(* get_status for every outcome of its probes, and SpecVersion2, the       *)
(* check loop of the simple variant src/bot_Version2.py.                   *)
(***************************************************************************)
EXTENDS Integers, Sequences, FiniteSets, TLC

(***************************************************************************)
(* Bounds of the model.                                                    *)
(***************************************************************************)
\* Number of loop iterations of check_server that are explored.
MaxCycles == 4
\* The wall clock of the generic scenarios takes the values 0..MaxTime.
MaxTime == 2

(***************************************************************************)
(* Values.                                                                 *)
(***************************************************************************)
\* Python's None, for the optional fields that hold strings.
None == "None"
\* Optional values that hold a number or a dict: Absent is None, Some(x) is x.
Absent == <<>>
Some(x) == <<x>>

\* Values of MC_PROTOCOL that are explored; "rcon" stands for any string
\* other than auto, java and bedrock.
ProtocolModes == {"auto", "java", "bedrock", "rcon"}

\* str(e) of the exceptions a rich status query raises; asyncio.TimeoutError
\* has the empty description.
QueryErrors == {"timed out", ""}

\* Outcomes of the three network operations of one resolution: the Bedrock
\* status query and the Java status query ("ok" or the description of the
\* exception raised), and the bare TCP connect.
ProbeOutcomes ==
    [bedrock : {"ok"} \cup QueryErrors, java : {"ok", "timed out"}, tcp : BOOLEAN]

VARIABLES
    \* configuration, read from the environment at import (bot.py 53-56, 27-33)
    MC_PROTOCOL, STABLE_THRESHOLD, RATE_LIMIT_SECONDS, _MCSTATUS_AVAILABLE,
    \* module state (bot.py 69-72)
    _last_status, _stable_count, _last_announce, _last_details,
    \* check_server: position (the await it is suspended at) and its locals
    pc, channel, details, current_status, now,
    \* cmd_server: position and its local
    cmd_pc, cmd_details,
    \* environment: the last value datetime.utcnow() returned (the wall clock
    \* is taken not to be set back) and the instants it can show
    clock, Times,
    \* observation: iterations started, and one entry per iteration that got
    \* past the channel lookup (its number, its classification, the time it
    \* read at line 223, 0 when it read none, and what it did)
    cycles, log,
    \* a single call of get_status, looked at on its own: the outcomes of its
    \* probes, what it returned and the status its caller goes on with
    resolution,
    \* the simple variant bot_Version2.py: its module state, the position and
    \* the local of its check_server, the iterations started, and one entry
    \* per iteration that queried the server
    last_status, v2_pc, v2_current_status, v2_cycles, v2_log

vars == <<MC_PROTOCOL, STABLE_THRESHOLD, RATE_LIMIT_SECONDS, _MCSTATUS_AVAILABLE,
          _last_status, _stable_count, _last_announce, _last_details,
          pc, channel, details, current_status, now, cmd_pc, cmd_details,
          clock, Times, cycles, log, resolution,
          last_status, v2_pc, v2_current_status, v2_cycles, v2_log>>

config == <<MC_PROTOCOL, STABLE_THRESHOLD, RATE_LIMIT_SECONDS, _MCSTATUS_AVAILABLE, Times>>
debounce_state == <<_last_status, _stable_count>>
announce_state == <<_last_announce, _last_details>>
check_locals == <<pc, channel, details, current_status, now>>
\* The variables of bot_Version2.py.
version2 == <<last_status, v2_pc, v2_current_status, v2_cycles, v2_log>>
\* What bot.py never changes: the variables of the other specifications of
\* this module.
aside == <<resolution, version2>>
cmd_locals == <<cmd_pc, cmd_details>>
\* The variables of bot.py.
bot_py == <<config, debounce_state, announce_state, check_locals, cmd_locals,
            clock, cycles, log>>

(***************************************************************************)
(* Probes and protocol resolution.  A result is the pair of the dict       *)
(* returned and the network operations issued, in order.                   *)
(***************************************************************************)
\* The dict a probe returns, with .get() semantics: a missing key reads None.
StatusDict(available, players, maxp, motd, latency, error) ==
    [available |-> available, players_online |-> players, max_players |-> maxp,
     motd |-> motd, latency_ms |-> latency, error |-> error]

\* The fields of a successful rich status query.
RichStatus == StatusDict(TRUE, "3", "20", "A Minecraft Server", "42", None)

\* tcp_port_open: True when the connect succeeds, False on any exception.
tcp_port_open(p) == p.tcp

\* A Java probe that reports offline when the query of mcstatus fails.
query_java_NoFallback(mc, p) ==
    IF mc
    THEN IF p.java = "ok"
         THEN [res |-> RichStatus, calls |-> <<"java_status">>]
         ELSE [res |-> StatusDict(FALSE, None, None, None, None, None),
               calls |-> <<"java_status">>]
    ELSE [res |-> StatusDict(tcp_port_open(p), None, None, None, None, None),
          calls |-> <<"tcp_connect">>]

\* A Java probe that reports the time the TCP connect took, up or not.
query_java_ConnectLatency(mc, p) ==
    IF mc /\ p.java = "ok"
    THEN [res |-> RichStatus, calls |-> <<"java_status">>]
    ELSE [res |-> StatusDict(tcp_port_open(p), None, None, None, "5", None),
          calls |-> (IF mc THEN <<"java_status">> ELSE <<>>) \o <<"tcp_connect">>]

\* query_java: mcstatus when it is importable, else (or on its failure) the
\* bare TCP connect.
query_java(mc, p) ==
    IF mc /\ p.java = "ok"
    THEN [res |-> RichStatus, calls |-> <<"java_status">>]
    ELSE [res |-> StatusDict(tcp_port_open(p), None, None, None, None, None),
          calls |-> (IF mc THEN <<"java_status">> ELSE <<>>) \o <<"tcp_connect">>]

\* query_bedrock: requires mcstatus; any exception becomes available=False.
query_bedrock(mc, p) ==
    IF ~mc
    THEN [res |-> StatusDict(FALSE, None, None, None, None,
                     "mcstatus not installed (required for Bedrock UDP checks)"),
          calls |-> <<>>]
    ELSE IF p.bedrock = "ok"
    THEN [res |-> RichStatus, calls |-> <<"bedrock_status">>]
    ELSE [res |-> StatusDict(FALSE, None, None, None, None, p.bedrock),
          calls |-> <<"bedrock_status">>]

\* {"edition": e, **res}
Tagged(e, res) == [edition |-> e] @@ res

\* A relabelling that gives up on the edition.
GuessedEdition_Unknown(mc) == "unknown"

\* Line 144: the edition reported when neither probe answered.
GuessedEdition(mc) == IF mc THEN "bedrock" ELSE "java"

\* A resolution that tries Java before Bedrock.
get_status_auto_JavaFirst(mc, p) ==
    LET b == query_bedrock(mc, p)
        j == query_java(mc, p)
    IN  IF j.res.available
        THEN [raised |-> FALSE, error |-> None,
              details |-> Tagged("java", j.res), calls |-> j.calls]
        ELSE IF mc /\ b.res.available
        THEN [raised |-> FALSE, error |-> None,
              details |-> Tagged("bedrock", b.res), calls |-> j.calls \o b.calls]
        ELSE [raised |-> FALSE, error |-> None,
              details |-> Tagged(GuessedEdition(mc), j.res),
              calls |-> j.calls \o (IF mc THEN b.calls ELSE <<>>)]

\* Lines 132-145, protocol auto: Bedrock first when mcstatus is there, then
\* Java; when neither is available, Java's result under a guessed edition.
get_status_auto(mc, p) ==
    LET b == query_bedrock(mc, p)
        j == query_java(mc, p)
    IN  IF mc /\ b.res.available
        THEN [raised |-> FALSE, error |-> None,
              details |-> Tagged("bedrock", b.res), calls |-> b.calls]
        ELSE LET pre == IF mc THEN b.calls ELSE <<>>
             IN  IF j.res.available
                 THEN [raised |-> FALSE, error |-> None,
                       details |-> Tagged("java", j.res), calls |-> pre \o j.calls]
                 ELSE [raised |-> FALSE, error |-> None,
                       details |-> Tagged(GuessedEdition(mc), j.res),
                       calls |-> pre \o j.calls]

\* get_status: raised is TRUE when it raises ValueError, whose description
\* is then in error.
get_status(protocol, mc, p) ==
    IF protocol = "auto" THEN get_status_auto(mc, p)
    ELSE IF protocol = "java" THEN
        LET j == query_java(mc, p)
        IN  [raised |-> FALSE, error |-> None,
             details |-> Tagged("java", j.res), calls |-> j.calls]
    ELSE IF protocol = "bedrock" THEN
        LET b == query_bedrock(mc, p)
        IN  [raised |-> FALSE, error |-> None,
             details |-> Tagged("bedrock", b.res), calls |-> b.calls]
    ELSE [raised |-> TRUE, error |-> "Unsupported protocol: " \o protocol,
          details |-> None, calls |-> <<>>]

\* A handler that drops the description of the exception.
StatusOrError_NoDescription(r) ==
    IF r.raised
    THEN Tagged("unknown", StatusDict(FALSE, None, None, None, None, None))
    ELSE r.details

\* The try/except around get_status, in check_server and in cmd_server alike.
StatusOrError(r) ==
    IF r.raised
    THEN Tagged("unknown", StatusDict(FALSE, None, None, None, None, r.error))
    ELSE r.details

\* bool(details.get("available")) mapped to "online" / "offline".
Classify(d) == IF d.available THEN "online" ELSE "offline"

(***************************************************************************)
(* The steps of check_server's decision, one operator per condition.       *)
(***************************************************************************)
\* A counter that a differing classification does not reset.
NextStableCount_NoReset(c, last, count) == count + 1

\* Lines 215-218: the debounce counter after observing classification c.
NextStableCount(c, last, count) == IF c = last THEN count + 1 ELSE 1

\* Stability tests that are off by one, either way.
IsStable_OneEarly(count, threshold) == count >= threshold - 1
IsStable_OneLate(count, threshold) == count > threshold

\* Line 222.
IsStable(count, threshold) == count >= threshold

\* A rate limit that still holds when exactly the limit has elapsed.
RateLimited_Inclusive(t, last_announce, limit) ==
    last_announce # Absent /\ t - last_announce[1] <= limit

\* A rate limit that is never applied.
RateLimited_Never(t, last_announce, limit) == FALSE

\* A rate limit that counts from time 0 while nothing was announced yet.
RateLimited_FromStart(t, last_announce, limit) ==
    t - (IF last_announce = Absent THEN 0 ELSE last_announce[1]) < limit

\* A rate limit with the operands of the subtraction swapped.
RateLimited_Reversed(t, last_announce, limit) ==
    last_announce # Absent /\ last_announce[1] - t < limit

\* Line 225: a previous announcement exists and is younger than the limit.
RateLimited(t, last_announce, limit) ==
    last_announce # Absent /\ t - last_announce[1] < limit

\* Line 229: _last_details.get("announced_status") if _last_details else None
AnnouncedStatus(last_details) ==
    IF last_details # Absent THEN last_details[1].announced_status ELSE None

\* A change test that compares with nothing.
StatusChanged_Always(c, last_details) == TRUE

\* Line 229: the status differs from the one last announced.
StatusChanged(c, last_details) == c # AnnouncedStatus(last_details)

\* Line 254: {"announced_status": current_status, **details}
AnnouncedDetails(c, d) == [announced_status |-> c] @@ d

\* One entry of the observation log.
Entry(n, c, t, out) == [n |-> n, cls |-> c, t |-> t, out |-> out]

\* The locals of a coroutine that is not running.
NoDetails == Tagged("unknown", StatusDict(FALSE, None, None, None, None, None))

(***************************************************************************)
(* Initial states: the module has been imported, the bot is not yet ready. *)
(***************************************************************************)
\* Values of STABLE_THRESHOLD that are explored (_env_int accepts any
\* string of digits).
Thresholds == {1, 2, 3}

\* Values of RATE_LIMIT_SECONDS that are explored, each with the instants
\* the clock shows: no limit on the instants 0 and 1, a limit of 2 on the
\* clock 0..MaxTime, and the default 300 on the instants 0, 100, 301.
RateScenarios ==
    {[limit |-> 0, times |-> {0, 1}],
     [limit |-> 2, times |-> 0..MaxTime],
     [limit |-> 300, times |-> {0, 100, 301}]}

\* The configurations explored: every threshold and rate scenario with the
\* Java protocol probed by TCP alone, and every protocol with and without
\* mcstatus under the default threshold and a limit of 2.
Configs ==
    {[protocol |-> "java", mc |-> FALSE, threshold |-> th, rate |-> s] :
        th \in Thresholds, s \in RateScenarios}
    \cup
    {[protocol |-> m, mc |-> mc, threshold |-> 2,
      rate |-> [limit |-> 2, times |-> 0..MaxTime]] :
        m \in ProtocolModes, mc \in BOOLEAN}

\* bot_Version2.py line 22 and a check_server that was not started.
Version2Start ==
    /\ last_status = None
    /\ v2_pc = "not_started"
    /\ v2_current_status = None
    /\ v2_cycles = 0
    /\ v2_log = <<>>

Init ==
    /\ \E c \in Configs :
        /\ MC_PROTOCOL = c.protocol
        /\ _MCSTATUS_AVAILABLE = c.mc
        /\ STABLE_THRESHOLD = c.threshold
        /\ RATE_LIMIT_SECONDS = c.rate.limit
        /\ Times = c.rate.times
    /\ _last_status = None
    /\ _stable_count = 0
    /\ _last_announce = Absent
    /\ _last_details = Absent
    /\ pc = "not_started"
    /\ channel = None
    /\ details = NoDetails
    /\ current_status = None
    /\ now = 0
    /\ cmd_pc = "idle"
    /\ cmd_details = NoDetails
    /\ clock = 0
    /\ cycles = 0
    /\ log = <<>>
    /\ resolution = Absent
    /\ Version2Start

(***************************************************************************)
(* check_server, one action per stretch between two awaits.                *)
(***************************************************************************)
\* on_ready: check_server.start().
on_ready ==
    /\ pc = "not_started"
    /\ pc' = "idle"
    /\ UNCHANGED <<config, aside, debounce_state, announce_state, channel, details,
                   current_status, now, cmd_locals, clock, cycles, log>>

\* Lines 193-199: a loop iteration starts and looks the channel up; when it
\* is not cached the iteration awaits fetch_channel.
LookupChannel ==
    /\ pc = "idle"
    /\ cycles < MaxCycles
    /\ cycles' = cycles + 1
    /\ \E cached \in BOOLEAN :
        /\ channel' = IF cached THEN "channel" ELSE None
        /\ pc' = IF cached THEN "get_status" ELSE "fetch_channel"
    /\ UNCHANGED <<config, aside, debounce_state, announce_state, details, current_status,
                   now, cmd_locals, clock, log>>

\* A failed fetch_channel after which the iteration goes on.
FetchChannel_NoReturn ==
    /\ pc = "fetch_channel"
    /\ \E ok \in BOOLEAN :
        /\ channel' = IF ok THEN "channel" ELSE None
        /\ pc' = "get_status"
    /\ UNCHANGED <<config, aside, debounce_state, announce_state, details, current_status,
                   now, cmd_locals, clock, cycles, log>>

\* A failed fetch_channel that starts the count over.
FetchChannel_Resets ==
    /\ pc = "fetch_channel"
    /\ \E ok \in BOOLEAN :
        /\ channel' = IF ok THEN "channel" ELSE None
        /\ pc' = IF ok THEN "get_status" ELSE "idle"
        /\ _stable_count' = IF ok THEN _stable_count ELSE 0
        /\ _last_status' = IF ok THEN _last_status ELSE None
    /\ UNCHANGED <<config, aside, announce_state, details, current_status,
                   now, cmd_locals, clock, cycles, log>>

\* Lines 199-202: fetch_channel returns the channel, or raises and the
\* iteration returns.
FetchChannel ==
    /\ pc = "fetch_channel"
    /\ \E ok \in BOOLEAN :
        /\ channel' = IF ok THEN "channel" ELSE None
        /\ pc' = IF ok THEN "get_status" ELSE "idle"
    /\ UNCHANGED <<config, aside, debounce_state, announce_state, details, current_status,
                   now, cmd_locals, clock, cycles, log>>

\* Line 264 and the end of the iteration.
FinishCycle(c, t, out) ==
    /\ _last_status' = c
    /\ pc' = "idle"
    /\ channel' = None
    /\ details' = NoDetails
    /\ current_status' = None
    /\ now' = 0
    /\ log' = Append(log, Entry(cycles, c, t, out))

\* A throttled iteration that records the status as announced.
SuppressedByRateLimit_Commits(c, t) ==
    /\ FinishCycle(c, t, "rate_limit")
    /\ _last_details' = Some([announced_status |-> c])
    /\ UNCHANGED _last_announce

\* Lines 225-226 and 264: inside the cooldown only a log line is written.
SuppressedByRateLimit(c, t) ==
    /\ FinishCycle(c, t, "rate_limit")
    /\ UNCHANGED announce_state

\* Lines 204-229 (and 259-264 when nothing is to be sent): get_status has
\* returned or raised; classify, debounce and decide.
Decide ==
    /\ pc = "get_status"
    /\ \E p \in ProbeOutcomes :
        LET d == StatusOrError(get_status(MC_PROTOCOL, _MCSTATUS_AVAILABLE, p))
            c == Classify(d)
            n == NextStableCount(c, _last_status, _stable_count)
        IN  /\ _stable_count' = n
            /\ IF ~IsStable(n, STABLE_THRESHOLD)
               THEN FinishCycle(c, now, "unstable") /\ UNCHANGED <<clock, announce_state>>
               ELSE \E t \in Times :
                    /\ t >= clock
                    /\ clock' = t
                    /\ IF RateLimited(t, _last_announce, RATE_LIMIT_SECONDS)
                       THEN SuppressedByRateLimit(c, t)
                       ELSE IF ~StatusChanged(c, _last_details)
                       THEN FinishCycle(c, t, "already") /\ UNCHANGED announce_state
                       ELSE /\ pc' = "send"
                            /\ details' = d
                            /\ current_status' = c
                            /\ now' = t
                            /\ UNCHANGED <<_last_status, log, announce_state, channel>>
    /\ UNCHANGED <<config, aside, cmd_locals, cycles>>

\* Lines 230-254: the embed or the text was built and channel.send returned.
SendOk ==
    /\ pc = "send"
    /\ _last_announce' = Some(now)
    /\ _last_details' = Some(AnnouncedDetails(current_status, details))
    /\ FinishCycle(current_status, now, "sent")
    /\ UNCHANGED <<config, aside, _stable_count, cmd_locals, clock, cycles>>

\* A failed send that is recorded as an announcement all the same.
SendFail_Commits ==
    /\ pc = "send"
    /\ _last_announce' = Some(now)
    /\ _last_details' = Some(AnnouncedDetails(current_status, details))
    /\ FinishCycle(current_status, now, "failed")
    /\ UNCHANGED <<config, aside, _stable_count, cmd_locals, clock, cycles>>

\* Lines 255-258: building the message or channel.send raised.
SendFail ==
    /\ pc = "send"
    /\ FinishCycle(current_status, now, "failed")
    /\ UNCHANGED <<config, aside, _stable_count, announce_state, cmd_locals, clock, cycles>>

(***************************************************************************)
(* cmd_server.                                                             *)
(***************************************************************************)
\* Lines 274-278: the command is invoked and awaits get_status.
CmdInvoke ==
    /\ cmd_pc = "idle"
    /\ cmd_pc' = "get_status"
    /\ UNCHANGED <<config, aside, debounce_state, announce_state, check_locals, cmd_details,
                   clock, cycles, log>>

\* A command that feeds what it saw to the debouncer.
CmdStatus_Debounces ==
    /\ cmd_pc = "get_status"
    /\ \E p \in ProbeOutcomes :
        cmd_details' = StatusOrError(get_status(MC_PROTOCOL, _MCSTATUS_AVAILABLE, p))
    /\ cmd_pc' = "send"
    /\ _last_status' = Classify(cmd_details')
    /\ UNCHANGED <<config, aside, _stable_count, announce_state, check_locals,
                   clock, cycles, log>>

\* Lines 278-281: get_status has returned or raised.
CmdStatus ==
    /\ cmd_pc = "get_status"
    /\ \E p \in ProbeOutcomes :
        cmd_details' = StatusOrError(get_status(MC_PROTOCOL, _MCSTATUS_AVAILABLE, p))
    /\ cmd_pc' = "send"
    /\ UNCHANGED <<config, aside, debounce_state, announce_state, check_locals,
                   clock, cycles, log>>

\* Lines 282-300: the reply is formatted and ctx.send returns or raises.
CmdSend ==
    /\ cmd_pc = "send"
    /\ cmd_pc' = "idle"
    /\ cmd_details' = NoDetails
    /\ UNCHANGED <<config, aside, debounce_state, announce_state, check_locals,
                   clock, cycles, log>>

Next ==
    \/ on_ready
    \/ LookupChannel
    \/ FetchChannel
    \/ Decide
    \/ SendOk
    \/ SendFail
    \/ CmdInvoke
    \/ CmdStatus
    \/ CmdSend

Spec == Init /\ [][Next]_vars

(***************************************************************************)
(* get_status on its own: one call under every protocol mode, with and     *)
(* without mcstatus, for every outcome of the probes.                      *)
(***************************************************************************)
InitResolve ==
    /\ MC_PROTOCOL \in ProtocolModes
    /\ _MCSTATUS_AVAILABLE \in BOOLEAN
    /\ STABLE_THRESHOLD = 2
    /\ RATE_LIMIT_SECONDS = 2
    /\ Times = 0..MaxTime
    /\ _last_status = None
    /\ _stable_count = 0
    /\ _last_announce = Absent
    /\ _last_details = Absent
    /\ pc = "not_started"
    /\ channel = None
    /\ details = NoDetails
    /\ current_status = None
    /\ now = 0
    /\ cmd_pc = "idle"
    /\ cmd_details = NoDetails
    /\ clock = 0
    /\ cycles = 0
    /\ log = <<>>
    /\ resolution = Absent
    /\ Version2Start

\* One call of get_status as check_server and cmd_server make it (lines
\* 204-209 and 277-281): the probes answer p, the call returns or raises r,
\* and the caller goes on with status.
Resolve ==
    /\ \E p \in ProbeOutcomes :
        LET r == get_status(MC_PROTOCOL, _MCSTATUS_AVAILABLE, p)
        IN  resolution' = Some([p |-> p, r |-> r, status |-> StatusOrError(r)])
    /\ UNCHANGED <<bot_py, version2>>

NextResolve == Resolve

SpecResolve == InitResolve /\ [][NextResolve]_vars

(***************************************************************************)
(* bot_Version2.py: a Bedrock-only bot without debounce and without rate   *)
(* limit.  One action per stretch of its check_server between two awaits.  *)
(***************************************************************************)
InitVersion2 ==
    /\ MC_PROTOCOL = "bedrock"
    /\ _MCSTATUS_AVAILABLE = TRUE
    /\ STABLE_THRESHOLD = 1
    /\ RATE_LIMIT_SECONDS = 0
    /\ Times = 0..MaxTime
    /\ _last_status = None
    /\ _stable_count = 0
    /\ _last_announce = Absent
    /\ _last_details = Absent
    /\ pc = "not_started"
    /\ channel = None
    /\ details = NoDetails
    /\ current_status = None
    /\ now = 0
    /\ cmd_pc = "idle"
    /\ cmd_details = NoDetails
    /\ clock = 0
    /\ cycles = 0
    /\ log = <<>>
    /\ resolution = Absent
    /\ Version2Start

\* Lines 25-34: on_ready starts check_server.
V2_on_ready ==
    /\ v2_pc = "not_started"
    /\ v2_pc' = "idle"
    /\ UNCHANGED <<bot_py, resolution, last_status, v2_current_status, v2_cycles, v2_log>>

\* Lines 82-84 and 41-42: an iteration starts and _get_channel looks the
\* channel up in the cache; when it is not there it awaits fetch_channel.
V2_LookupChannel ==
    /\ v2_pc = "idle"
    /\ v2_cycles < MaxCycles
    /\ v2_cycles' = v2_cycles + 1
    /\ \E cached \in BOOLEAN : v2_pc' = IF cached THEN "query" ELSE "fetch_channel"
    /\ UNCHANGED <<bot_py, resolution, last_status, v2_current_status, v2_log>>

\* Lines 43-47 and 85-87: fetch_channel returns the channel, or raises and
\* the iteration is skipped.
V2_FetchChannel ==
    /\ v2_pc = "fetch_channel"
    /\ \E ok \in BOOLEAN : v2_pc' = IF ok THEN "query" ELSE "idle"
    /\ UNCHANGED <<bot_py, resolution, last_status, v2_current_status, v2_cycles, v2_log>>

\* The end of an iteration that queried the server.
V2_Finish(c, out) ==
    /\ v2_pc' = "idle"
    /\ v2_current_status' = None
    /\ v2_log' = Append(v2_log, [n |-> v2_cycles, cls |-> c, out |-> out])

\* Lines 89-97 and 112-113: the query returned (or raised, which counts as
\* offline); the status is compared with last_status.
V2_Query ==
    /\ v2_pc = "query"
    /\ \E online \in BOOLEAN :
        LET c == IF online THEN "online" ELSE "offline"
        IN  IF c # last_status
            THEN /\ v2_pc' = "send"
                 /\ v2_current_status' = c
                 /\ UNCHANGED v2_log
            ELSE V2_Finish(c, "none")
    /\ UNCHANGED <<bot_py, resolution, last_status, v2_cycles>>

\* Lines 98-105 and 111: channel.send returned.
V2_SendOk ==
    /\ v2_pc = "send"
    /\ last_status' = v2_current_status
    /\ V2_Finish(v2_current_status, "sent")
    /\ UNCHANGED <<bot_py, resolution, v2_cycles>>

\* A failed send after which the status counts as not announced.
V2_SendFail_Keeps ==
    /\ v2_pc = "send"
    /\ V2_Finish(v2_current_status, "failed")
    /\ UNCHANGED <<bot_py, resolution, last_status, v2_cycles>>

\* Lines 106-111: channel.send raised; the exception is logged and
\* last_status is assigned all the same.
V2_SendFail ==
    /\ v2_pc = "send"
    /\ last_status' = v2_current_status
    /\ V2_Finish(v2_current_status, "failed")
    /\ UNCHANGED <<bot_py, resolution, v2_cycles>>

NextVersion2 ==
    \/ V2_on_ready
    \/ V2_LookupChannel
    \/ V2_FetchChannel
    \/ V2_Query
    \/ V2_SendOk
    \/ V2_SendFail

SpecVersion2 == InitVersion2 /\ [][NextVersion2]_vars

(***************************************************************************)
(* Reading the observation log.  These definitions restate, from the log   *)
(* alone, what an iteration was given: they use none of the operators of   *)
(* the decision above.                                                     *)
(***************************************************************************)
Max(S) == CHOOSE x \in S : \A y \in S : y <= x

\* The number of consecutive entries up to and including i that carry the
\* classification of entry i.
RunLength(s, i) ==
    LET differ == {k \in 1..(i - 1) : s[k].cls # s[i].cls}
    IN  IF differ = {} THEN i ELSE i - Max(differ)

\* The iterations that got past the channel lookup, the one suspended in
\* channel.send included (its outcome is pending).
Observed ==
    IF pc = "send" THEN Append(log, Entry(cycles, current_status, now, "pending"))
    ELSE log

\* Entry i saw its classification at least STABLE_THRESHOLD times in a row.
StableAt(i) == RunLength(Observed, i) >= STABLE_THRESHOLD

\* The iterations before entry i whose notification was delivered.
SentBefore(i) == {k \in 1..(i - 1) : Observed[k].out = "sent"}

\* The classification last delivered before entry i, None when none was.
AnnouncedBefore(i) ==
    IF SentBefore(i) = {} THEN None ELSE Observed[Max(SentBefore(i))].cls

\* No notification was delivered before entry i, or the last one was
\* delivered at least RATE_LIMIT_SECONDS before the time entry i read.
CooldownElapsedAt(i) ==
    \/ SentBefore(i) = {}
    \/ Observed[i].t - Observed[Max(SentBefore(i))].t >= RATE_LIMIT_SECONDS

\* Entry i called channel.send.
Attempted(i) == Observed[i].out \in {"sent", "failed", "pending"}

(***************************************************************************)
(* C1: after every iteration the debounce counter is the number of most    *)
(* recent consecutive iterations whose classification equals the current   *)
(* one (it is reset to 1 by a differing classification), the remembered    *)
(* classification is the most recent one, and an iteration goes past the   *)
(* stability test only when that number has reached STABLE_THRESHOLD.      *)
(***************************************************************************)
C1_DebounceCountsRun ==
    /\ _stable_count = RunLength(Observed, Len(Observed))
    /\ _last_status = (IF log = <<>> THEN None ELSE log[Len(log)].cls)
    /\ \A i \in 1..Len(Observed) :
        (Observed[i].out # "unstable") <=> StableAt(i)

\* A run of two was counted after the counter had been reset by a change.
C1_Witness ==
    /\ STABLE_THRESHOLD = 3
    /\ Len(log) = 4
    /\ log[1].cls # log[2].cls
    /\ log[2].cls = log[3].cls /\ log[3].cls = log[4].cls
    /\ _stable_count = 3
    /\ log[4].out = "sent"

(***************************************************************************)
(* C2: a notification is never sent, nor attempted, for the classification *)
(* that was last delivered: delivered notifications alternate between the  *)
(* two classifications.                                                    *)
(***************************************************************************)
C2_NoRepeatedAnnouncement ==
    /\ \A i \in 1..Len(Observed) :
        Attempted(i) => Observed[i].cls # AnnouncedBefore(i)
    /\ AnnouncedStatus(_last_details) = AnnouncedBefore(Len(log) + 1)

\* Three notifications were delivered, the third for the classification of
\* the first.
C2_Witness ==
    \E i, j, k \in 1..Len(log) :
        /\ i < j /\ j < k
        /\ log[i].out = "sent" /\ log[j].out = "sent" /\ log[k].out = "sent"
        /\ log[i].cls = log[k].cls

(***************************************************************************)
(* C3: two delivered notifications are at least RATE_LIMIT_SECONDS apart,  *)
(* and channel.send is never called sooner than RATE_LIMIT_SECONDS after   *)
(* the time recorded for the last delivered notification.                  *)
(***************************************************************************)
C3_RateLimitRespected ==
    /\ \A i \in 1..Len(Observed) :
        Attempted(i) =>
            \A k \in SentBefore(i) : Observed[i].t - Observed[k].t >= RATE_LIMIT_SECONDS
    /\ _last_announce =
        (IF SentBefore(Len(log) + 1) = {} THEN Absent
         ELSE Some(log[Max(SentBefore(Len(log) + 1))].t))

\* With a limit of 2, two notifications were delivered exactly 2 apart,
\* after an iteration in between was throttled.
C3_Witness ==
    /\ RATE_LIMIT_SECONDS = 2
    /\ \E i, j \in 1..Len(log) :
        /\ i + 1 < j
        /\ log[i].out = "sent" /\ log[j].out = "sent"
        /\ log[j - 1].out = "rate_limit"
        /\ log[j].t - log[i].t = 2

(***************************************************************************)
(* C4: an iteration that is stable, whose classification differs from the  *)
(* announced one and whose time is less than RATE_LIMIT_SECONDS after the  *)
(* last announce time calls no send and leaves the announced               *)
(* classification and the announce time as they were.                      *)
(***************************************************************************)
C4_ThrottledKeepsAnnounceState ==
    [][(/\ Len(log') = Len(log) + 1
        /\ RunLength(log', Len(log')) >= STABLE_THRESHOLD
        /\ log'[Len(log')].cls # AnnouncedStatus(_last_details)
        /\ _last_announce # Absent
        /\ log'[Len(log')].t - _last_announce[1] < RATE_LIMIT_SECONDS)
       => (/\ pc = "get_status"
           /\ log'[Len(log')].out = "rate_limit"
           /\ _last_announce' = _last_announce
           /\ _last_details' = _last_details)]_vars

\* A changed, stable classification was throttled twice in a row, the
\* second time against the same announced state.
C4_Witness ==
    /\ Len(log) = 4
    /\ log[1].out = "sent"
    /\ log[3].out = "rate_limit" /\ log[4].out = "rate_limit"
    /\ log[3].cls # log[1].cls /\ log[4].cls # log[1].cls
    /\ AnnouncedStatus(_last_details) = log[1].cls
    /\ _last_announce = Some(log[1].t)

(***************************************************************************)
(* C5: a throttled transition is delayed, not dropped.  Every stable       *)
(* iteration whose classification differs from the one last delivered      *)
(* calls channel.send as soon as RATE_LIMIT_SECONDS have elapsed since the *)
(* last delivery (or nothing was delivered yet), and is throttled before.  *)
(***************************************************************************)
C5_ThrottledIsDelayedNotDropped ==
    \A i \in 1..Len(Observed) :
        (StableAt(i) /\ Observed[i].cls # AnnouncedBefore(i)) =>
            IF CooldownElapsedAt(i) THEN Attempted(i)
            ELSE Observed[i].out = "rate_limit"

\* RATE_LIMIT_SECONDS = 300: sent at 0, the transition throttled at 100
\* and sent at 301.
C5_Witness ==
    /\ RATE_LIMIT_SECONDS = 300
    /\ \E i, j, k \in 1..Len(log) :
        /\ i < j /\ j < k
        /\ log[i].out = "sent" /\ log[i].t = 0
        /\ log[j].out = "rate_limit" /\ log[j].t = 100 /\ log[j].cls # log[i].cls
        /\ log[k].out = "sent" /\ log[k].t = 301 /\ log[k].cls = log[j].cls

(***************************************************************************)
(* C6: when channel.send raises, the announced classification and the      *)
(* announce time stay as they were and the iteration still ends by         *)
(* recording its classification; the next stable iteration with that       *)
(* classification calls channel.send again.                                *)
(***************************************************************************)
C6_FailedSendDoesNotCommit ==
    /\ [][(pc = "send" /\ Len(log') = Len(log) + 1 /\ log'[Len(log')].out = "failed")
           => (/\ _last_announce' = _last_announce
               /\ _last_details' = _last_details
               /\ _last_status' = current_status
               /\ _stable_count' = _stable_count
               /\ pc' = "idle")]_vars
    /\ [](\A i, j \in 1..Len(Observed) :
            (/\ i < j
             /\ Observed[i].out = "failed"
             /\ Observed[j].cls = Observed[i].cls
             /\ StableAt(j)
             /\ \A k \in (i + 1)..(j - 1) : ~StableAt(k))
            => Attempted(j))

\* A send failed and the next iteration delivered the same notification.
C6_Witness ==
    /\ RATE_LIMIT_SECONDS = 300
    /\ \E i \in 1..(Len(log) - 1) :
        /\ log[i].out = "failed"
        /\ log[i + 1].out = "sent"
        /\ log[i + 1].cls = log[i].cls
        /\ SentBefore(i) # {}

(***************************************************************************)
(* C7: with STABLE_THRESHOLD = 2, as long as the classification alternates *)
(* from each iteration to the next no iteration is stable and channel.send *)
(* is never called.                                                        *)
(***************************************************************************)
C7_FlappingNeverAnnounces ==
    (/\ STABLE_THRESHOLD = 2
     /\ \A i \in 1..(Len(Observed) - 1) : Observed[i].cls # Observed[i + 1].cls)
    => (/\ pc # "send"
        /\ \A i \in 1..Len(log) : log[i].out = "unstable"
        /\ _last_announce = Absent
        /\ _last_details = Absent)

\* Four iterations saw online, offline, online, offline.
C7_Witness ==
    /\ STABLE_THRESHOLD = 2
    /\ Len(log) = 4
    /\ log[1].cls = "online" /\ log[2].cls = "offline"
    /\ log[3].cls = "online" /\ log[4].cls = "offline"

(***************************************************************************)
(* C8: the end-to-end scenario.  STABLE_THRESHOLD = 2 and                  *)
(* RATE_LIMIT_SECONDS = 0; every iteration finds the channel and every     *)
(* send succeeds; the target is unreachable at first, then reachable for   *)
(* good.                                                                   *)
(***************************************************************************)
Min(S) == CHOOSE x \in S : \A y \in S : x <= y

UnreachableThenReachable ==
    /\ STABLE_THRESHOLD = 2
    /\ RATE_LIMIT_SECONDS = 0
    /\ log # <<>>
    /\ \A i \in 1..Len(log) : log[i].n = i /\ log[i].out # "failed"
    /\ log[1].cls = "offline"
    /\ \E i \in 1..Len(log) : log[i].cls = "online"
    /\ \A i, j \in 1..Len(log) : (i < j /\ log[i].cls = "online") => log[j].cls = "online"

\* The iteration of the first successful probe.
FirstOnline == Min({i \in 1..Len(log) : log[i].cls = "online"})

\* C8 as stated: exactly one notification, the online one, two iterations
\* after the first successful probe, and none before.
C8_AsStated ==
    UnreachableThenReachable =>
        /\ \A i \in 1..Len(log) :
            log[i].out = "sent" => (i = FirstOnline + 2 /\ log[i].cls = "online")
        /\ Len(log) >= FirstOnline + 2 => log[FirstOnline + 2].out = "sent"

\* C8 as amended: exactly one online notification is sent, on the iteration
\* that follows the first successful probe (the second successful probe in
\* a row); no online notification is sent before it, and the only other
\* notification is the offline one of the second iteration, sent when the
\* target was unreachable for at least two iterations.
C8_OnlineAnnouncedOnSecondProbe ==
    UnreachableThenReachable =>
        /\ \A i \in 1..Len(log) :
            (log[i].out = "sent" /\ log[i].cls = "online") <=> (i = FirstOnline + 1)
        /\ \A i \in 1..Len(log) :
            (log[i].out = "sent" /\ log[i].cls = "offline") <=> (i = 2 /\ FirstOnline > 2)

\* Unreachable once, then reachable three times: the second successful
\* probe announced it and the third did not.
C8_Witness ==
    /\ UnreachableThenReachable
    /\ FirstOnline = 2
    /\ Len(log) = 4
    /\ log[1].out = "unstable" /\ log[2].out = "unstable"
    /\ log[3].out = "sent" /\ log[4].out = "already"

(***************************************************************************)
(* C9: a step of cmd_server changes nothing of check_server: neither the   *)
(* debounce state, nor the announce state, nor the iteration in progress,  *)
(* nor what it has sent.  Whatever commands ran, every iteration did what  *)
(* the iterations before it alone determine.                               *)
(***************************************************************************)
\* What iteration i does, given the iterations before it and nothing else.
CyclesAlone(i) ==
    IF ~StableAt(i) THEN {"unstable"}
    ELSE IF ~CooldownElapsedAt(i) THEN {"rate_limit"}
    ELSE IF Observed[i].cls = AnnouncedBefore(i) THEN {"already"}
    ELSE {"sent", "failed", "pending"}

C9_CommandLeavesCycleAlone ==
    /\ [][cmd_pc' # cmd_pc =>
            /\ UNCHANGED <<_last_status, _stable_count, _last_announce, _last_details>>
            /\ UNCHANGED <<pc, channel, details, current_status, now, cycles, log>>]_vars
    /\ [](\A i \in 1..Len(Observed) : Observed[i].out \in CyclesAlone(i))

\* The command resolved the status while an iteration was suspended in
\* channel.send, and saw the other classification.
C9_Witness ==
    /\ cmd_pc = "send"
    /\ pc = "send"
    /\ Classify(cmd_details) # current_status
    /\ Len(log) >= 2

(***************************************************************************)
(* C10: when get_status raises, the iteration goes on with the status      *)
(* available = False, error = the description of the exception, which is   *)
(* classified offline, debounced and announced like any offline result;    *)
(* the iterations that follow run as well.                                 *)
(***************************************************************************)
\* The status an iteration substitutes for the exception.
UnsupportedStatus ==
    [edition |-> "unknown", available |-> FALSE, players_online |-> None,
     max_players |-> None, motd |-> None, latency_ms |-> None,
     error |-> "Unsupported protocol: " \o MC_PROTOCOL]

C10_ResolutionErrorIsOffline ==
    MC_PROTOCOL \notin {"auto", "java", "bedrock"} =>
        /\ \A i \in 1..Len(Observed) :
            /\ Observed[i].cls = "offline"
            /\ Observed[i].out \in CyclesAlone(i)
        /\ _stable_count = Len(Observed)
        /\ pc = "send" => details = UnsupportedStatus
        /\ cmd_pc = "send" => cmd_details = UnsupportedStatus
        /\ _last_details # Absent =>
            _last_details[1] = [announced_status |-> "offline"] @@ UnsupportedStatus

\* Every resolution raised: the second iteration announced offline with
\* the description, the third and fourth ran and had nothing to announce.
C10_Witness ==
    /\ MC_PROTOCOL = "rcon"
    /\ Len(log) = 4
    /\ log[1].out = "unstable" /\ log[2].out = "sent"
    /\ log[3].out \in {"already", "rate_limit"} /\ log[4].out = "already"
    /\ _last_details[1].error = "Unsupported protocol: rcon"

(***************************************************************************)
(* C11: an unsupported protocol mode is rejected before check_server is    *)
(* started, so that no iteration ever runs with a mode other than auto,    *)
(* java and bedrock.  bot.py reads MC_PROTOCOL at line 53 and does not     *)
(* look at it again before get_status does, inside the iteration: the      *)
(* statement below is violated.                                            *)
(***************************************************************************)
SupportedModes == {"auto", "java", "bedrock"}

\* No iteration of check_server has resolved a status under an unsupported
\* mode.
C11_NoCycleWithUnsupportedMode ==
    log # <<>> => MC_PROTOCOL \in SupportedModes

(***************************************************************************)
(* C12: under protocol auto, when mcstatus is there the Bedrock query is   *)
(* the first operation issued, and when it answers the call returns its    *)
(* result as edition bedrock without any Java operation (neither the Java  *)
(* status query nor the TCP connect); a Java operation is issued only      *)
(* after the Bedrock query failed, or when it was skipped for lack of      *)
(* mcstatus.                                                               *)
(***************************************************************************)
\* The operations of the Java probe.
JavaCalls == {"java_status", "tcp_connect"}

\* The positions of the call sequence that hold an operation of S.
Positions(calls, S) == {i \in 1..Len(calls) : calls[i] \in S}

C12_AutoTriesBedrockFirst ==
    (resolution # Absent /\ MC_PROTOCOL = "auto") =>
        LET p == resolution[1].p
            r == resolution[1].r
            bedrock == Positions(r.calls, {"bedrock_status"})
            java == Positions(r.calls, JavaCalls)
        IN  /\ ~r.raised
            /\ _MCSTATUS_AVAILABLE => bedrock = {1}
            /\ ~_MCSTATUS_AVAILABLE => bedrock = {}
            /\ (_MCSTATUS_AVAILABLE /\ p.bedrock = "ok") =>
                /\ java = {}
                /\ r.details.edition = "bedrock"
                /\ r.details.available
            /\ java # {} =>
                \/ ~_MCSTATUS_AVAILABLE
                \/ p.bedrock # "ok" /\ \A i \in java : i > 1

\* The Bedrock query answered while the Java server would have answered
\* too: only the Bedrock query was issued.
C12_Witness ==
    /\ resolution # Absent
    /\ MC_PROTOCOL = "auto" /\ _MCSTATUS_AVAILABLE
    /\ resolution[1].p.bedrock = "ok" /\ resolution[1].p.java = "ok"
    /\ resolution[1].r.calls = <<"bedrock_status">>

(***************************************************************************)
(* C13: under protocol auto, when no probe reports available the call      *)
(* returns the result of the Java probe (available False, no error, no     *)
(* gameplay field) under the edition bedrock when mcstatus is there and    *)
(* java when it is not; never unknown.                                     *)
(***************************************************************************)
\* No probe of the resolution can report available.
NeitherAvailable(mc, p) ==
    /\ ~p.tcp
    /\ mc => (p.bedrock # "ok" /\ p.java # "ok")

C13_AutoBothFailedEdition ==
    (resolution # Absent /\ MC_PROTOCOL = "auto"
        /\ NeitherAvailable(_MCSTATUS_AVAILABLE, resolution[1].p)) =>
        LET r == resolution[1].r
        IN  /\ ~r.raised
            /\ r.details =
                [edition |-> IF _MCSTATUS_AVAILABLE THEN "bedrock" ELSE "java",
                 available |-> FALSE, players_online |-> None, max_players |-> None,
                 motd |-> None, latency_ms |-> None, error |-> None]
            /\ r.calls[Len(r.calls)] = "tcp_connect"

\* Both queries of mcstatus failed and the port is closed: the Bedrock
\* query, the Java query and the TCP connect were tried, and the result is
\* labelled bedrock.
C13_Witness ==
    /\ resolution # Absent
    /\ MC_PROTOCOL = "auto" /\ _MCSTATUS_AVAILABLE
    /\ resolution[1].r.calls = <<"bedrock_status", "java_status", "tcp_connect">>
    /\ ~resolution[1].r.details.available
    /\ resolution[1].r.details.edition = "bedrock"

(***************************************************************************)
(* C14: no iteration runs before the destination channel was resolved.     *)
(* on_ready starts check_server without looking at the channel, and an     *)
(* iteration that cannot resolve it still runs (and returns at line 202):  *)
(* the statement below is violated.                                        *)
(***************************************************************************)
\* Whenever an iteration has started, the channel has been resolved, by it
\* or by an earlier one.
C14_AsStated ==
    cycles > 0 => (channel # None \/ log # <<>>)

(***************************************************************************)
(* C14, amended: every iteration resolves the channel first.  It awaits    *)
(* get_status or channel.send only with the channel it resolved, and the   *)
(* debounce state, the announce state and the log change only in steps of  *)
(* an iteration that holds its channel; an iteration that cannot resolve   *)
(* it returns having changed none of them.                                 *)
(***************************************************************************)
C14_CycleResolvesChannelFirst ==
    /\ [](pc \in {"get_status", "send"} => channel # None)
    /\ [][(\/ debounce_state' # debounce_state
           \/ announce_state' # announce_state
           \/ log' # log) => channel # None]_vars
    /\ [][(pc = "fetch_channel" /\ pc' = "idle") =>
            UNCHANGED <<debounce_state, announce_state, log>>]_vars

\* Two iterations returned for want of a channel and left no trace; the
\* third fetched it, probed and counted.
C14_Witness ==
    /\ cycles = 3
    /\ Len(log) = 1 /\ log[1].n = 3
    /\ _stable_count = 1

(***************************************************************************)
(* C15: from an empty announce state, the first iteration that is stable   *)
(* calls channel.send for its classification, online or offline, whatever  *)
(* RATE_LIMIT_SECONDS is, and the announce state records it when the send  *)
(* succeeds; no earlier iteration calls channel.send.                      *)
(***************************************************************************)
\* The entries that saw their classification STABLE_THRESHOLD times in a
\* row.
StableEntries == {i \in 1..Len(Observed) : StableAt(i)}

C15_FirstStableIsAnnounced ==
    /\ StableEntries = {} => \A i \in 1..Len(Observed) : ~Attempted(i)
    /\ StableEntries # {} =>
        LET f == Min(StableEntries)
        IN  /\ \A i \in 1..(f - 1) : ~Attempted(i)
            /\ Attempted(f)
            /\ (Observed[f].out = "sent" /\ Len(Observed) = f) =>
                /\ _last_announce = Some(Observed[f].t)
                /\ AnnouncedStatus(_last_details) = Observed[f].cls

\* With a cooldown of 300 seconds and a threshold of 3, the third offline
\* iteration in a row is the first stable one and its notification went out.
C15_Witness ==
    /\ RATE_LIMIT_SECONDS = 300 /\ STABLE_THRESHOLD = 3
    /\ Len(log) = 3
    /\ log[1].out = "unstable" /\ log[2].out = "unstable"
    /\ log[3].cls = "offline" /\ log[3].out = "sent"

(***************************************************************************)
(* C16: a stable iteration whose classification is the one last announced  *)
(* is reported as already announced, inside the cooldown as well, and an   *)
(* iteration is reported as suppressed by the rate limit only when its     *)
(* classification differs from the one last announced and the cooldown     *)
(* has not elapsed.  check_server tests the rate limit at line 225, before *)
(* the comparison of line 229: the statement below is violated.            *)
(***************************************************************************)
C16_ChangeDetectionFirst ==
    \A i \in 1..Len(log) :
        /\ (StableAt(i) /\ log[i].cls = AnnouncedBefore(i)) => log[i].out = "already"
        /\ log[i].out = "rate_limit" =>
            /\ StableAt(i)
            /\ log[i].cls # AnnouncedBefore(i)
            /\ ~CooldownElapsedAt(i)

(***************************************************************************)
(* C17: the probes do not raise.  query_java, when mcstatus is missing or  *)
(* its query fails, falls back to the TCP connect and reports available    *)
(* with no gameplay field when the connect succeeds, not available when    *)
(* it fails.  query_bedrock without mcstatus issues no operation and       *)
(* returns not available with the error "capability unavailable"; when     *)
(* its query fails it returns not available with an error.  The text of    *)
(* the error is another one in bot.py (line 113): the statement below is   *)
(* violated.                                                               *)
(***************************************************************************)
\* The dict a probe returns when all it knows is whether the server is up.
BareStatus(e, available, error) ==
    [edition |-> e, available |-> available, players_online |-> None,
     max_players |-> None, motd |-> None, latency_ms |-> None, error |-> error]

\* What query_java does, read off a call under protocol java.
JavaProbeDegrades ==
    (resolution # Absent /\ MC_PROTOCOL = "java") =>
        LET p == resolution[1].p
            r == resolution[1].r
        IN  /\ ~r.raised
            /\ (~_MCSTATUS_AVAILABLE \/ p.java # "ok") =>
                /\ r.calls = (IF _MCSTATUS_AVAILABLE THEN <<"java_status">> ELSE <<>>)
                                \o <<"tcp_connect">>
                /\ r.details = BareStatus("java", p.tcp, None)

\* What query_bedrock does, read off a call under protocol bedrock, with
\* the diagnostic it is to return when mcstatus is missing.
BedrockProbeDegrades(diagnostic) ==
    (resolution # Absent /\ MC_PROTOCOL = "bedrock") =>
        LET p == resolution[1].p
            r == resolution[1].r
        IN  /\ ~r.raised
            /\ ~_MCSTATUS_AVAILABLE =>
                /\ r.calls = <<>>
                /\ r.details = BareStatus("bedrock", FALSE, diagnostic)
            /\ (_MCSTATUS_AVAILABLE /\ p.bedrock # "ok") =>
                /\ r.calls = <<"bedrock_status">>
                /\ r.details.error # None
                /\ r.details = BareStatus("bedrock", FALSE, p.bedrock)

C17_AsStated ==
    /\ JavaProbeDegrades
    /\ BedrockProbeDegrades("capability unavailable")

(***************************************************************************)
(* C17, amended: as above, with the error of query_bedrock without         *)
(* mcstatus being "mcstatus not installed (required for Bedrock UDP        *)
(* checks)", and its error after a failed query being the description of   *)
(* the exception, which can be the empty string.                           *)
(***************************************************************************)
C17_ProbesDegrade ==
    /\ JavaProbeDegrades
    /\ BedrockProbeDegrades("mcstatus not installed (required for Bedrock UDP checks)")
    /\ (resolution # Absent /\ MC_PROTOCOL = "auto") => ~resolution[1].r.raised

\* The query of mcstatus failed and the port is open: the Java probe fell
\* back to the TCP connect and reports the server up, with no player count.
C17_Witness ==
    /\ resolution # Absent
    /\ MC_PROTOCOL = "java" /\ _MCSTATUS_AVAILABLE
    /\ resolution[1].p.java = "timed out" /\ resolution[1].p.tcp
    /\ resolution[1].r.calls = <<"java_status", "tcp_connect">>
    /\ resolution[1].r.details.available
    /\ resolution[1].r.details.players_online = None

(***************************************************************************)
(* C18: the status check_server and cmd_server go on with, whatever the    *)
(* protocol mode, the presence of mcstatus and the outcome of the probes,  *)
(* the exception of get_status included: when it is available it has no    *)
(* error, and when it is not available it has no player count, no          *)
(* maximum, no MOTD and no latency.                                        *)
(***************************************************************************)
WellFormedStatus(d) ==
    /\ d.available => d.error = None
    /\ ~d.available =>
        /\ d.players_online = None
        /\ d.max_players = None
        /\ d.motd = None
        /\ d.latency_ms = None

C18_StatusWellFormed ==
    resolution # Absent => WellFormedStatus(resolution[1].status)

\* The Bedrock query failed and the Java query answered: the status is
\* available with its gameplay fields and without the Bedrock error.
C18_Witness ==
    /\ resolution # Absent
    /\ MC_PROTOCOL = "auto" /\ _MCSTATUS_AVAILABLE
    /\ resolution[1].p.bedrock = "timed out" /\ resolution[1].p.java = "ok"
    /\ resolution[1].status.available
    /\ resolution[1].status.players_online # None
    /\ resolution[1].status.error = None

(***************************************************************************)
(* C19: in bot_Version2.py, check_server calls channel.send exactly in     *)
(* the iterations whose status differs from last_status, and last_status   *)
(* becomes the current status whether the send succeeded or failed: after  *)
(* a failed send the transition is not sent again while the status stays   *)
(* the same.                                                               *)
(***************************************************************************)
\* The iterations of bot_Version2.py that queried the server, the one
\* suspended in channel.send included.
V2_Observed ==
    IF v2_pc = "send"
    THEN Append(v2_log, [n |-> v2_cycles, cls |-> v2_current_status, out |-> "pending"])
    ELSE v2_log

\* The status the iteration before entry i saw, None for the first.
V2_Previous(i) == IF i = 1 THEN None ELSE V2_Observed[i - 1].cls

C19_Version2CommitsRegardless ==
    /\ \A i \in 1..Len(V2_Observed) :
        (V2_Observed[i].out \in {"sent", "failed", "pending"})
            <=> (V2_Observed[i].cls # V2_Previous(i))
    /\ last_status = (IF v2_log = <<>> THEN None ELSE v2_log[Len(v2_log)].cls)
    /\ \A i \in 1..(Len(V2_Observed) - 1) :
        (V2_Observed[i].out = "failed" /\ V2_Observed[i + 1].cls = V2_Observed[i].cls)
            => V2_Observed[i + 1].out = "none"

\* The offline notification failed, and the next iteration, offline again,
\* did not send it.
C19_Witness ==
    /\ Len(v2_log) = 2
    /\ v2_log[1].cls = "offline" /\ v2_log[1].out = "failed"
    /\ v2_log[2].cls = "offline" /\ v2_log[2].out = "none"
    /\ last_status = "offline"

(***************************************************************************)
(* C20: check_server tests the rate limit before it compares the           *)
(* classification with the announced one; the specified announcer does it  *)
(* the other way round.  Given the same iterations (classification, time   *)
(* read, outcome of the send), the specified announcer decides to send in  *)
(* exactly the iterations where check_server calls channel.send, and its   *)
(* announce state is that of check_server after every iteration; only the  *)
(* reason given for not sending can differ.                                *)
(***************************************************************************)
\* The announce state of the specified announcer.
Announced(c, time) == [last_announced_classification |-> c, last_announce_time |-> time]

\* The specified announcer (the three steps of its algorithm), for a stable
\* classification c seen at time t in announce state st.
maybe_announce(t, c, st, limit) ==
    IF c = st.last_announced_classification THEN "SuppressedAlreadyAnnounced"
    ELSE IF st.last_announce_time # Absent /\ t - st.last_announce_time[1] < limit
    THEN "SuppressedByRateLimit"
    ELSE "Sent"

\* The announce state of the specified announcer after the first k entries:
\* it is consulted on the stable ones, and step 3 updates the state when the
\* notification went out.
RECURSIVE SpecifiedState(_)
SpecifiedState(k) ==
    IF k = 0 THEN Announced(None, Absent)
    ELSE LET st == SpecifiedState(k - 1)
             e == Observed[k]
         IN  IF /\ StableAt(k)
                /\ maybe_announce(e.t, e.cls, st, RATE_LIMIT_SECONDS) = "Sent"
                /\ e.out = "sent"
             THEN Announced(e.cls, Some(e.t))
             ELSE st

\* What the specified announcer decides at entry k.
SpecifiedDecision(k) ==
    IF ~StableAt(k) THEN "NotStable"
    ELSE maybe_announce(Observed[k].t, Observed[k].cls, SpecifiedState(k - 1),
                        RATE_LIMIT_SECONDS)

C20_OrderingsAgree ==
    /\ \A k \in 1..Len(Observed) :
        /\ (SpecifiedDecision(k) = "Sent") <=> Attempted(k)
        /\ (SpecifiedDecision(k) = "NotStable") <=> (Observed[k].out = "unstable")
        /\ Observed[k].out = "already" => SpecifiedDecision(k) = "SuppressedAlreadyAnnounced"
        /\ SpecifiedDecision(k) = "SuppressedByRateLimit" => Observed[k].out = "rate_limit"
    /\ SpecifiedState(Len(Observed)) =
        Announced(AnnouncedStatus(_last_details), _last_announce)

\* The second iteration is inside the cooldown with nothing new to say:
\* check_server blames the rate limit, the specified announcer says already
\* announced; the third, after the cooldown, is sent by both.
C20_Witness ==
    /\ Len(log) = 3
    /\ log[1].out = "sent"
    /\ log[2].out = "rate_limit" /\ SpecifiedDecision(2) = "SuppressedAlreadyAnnounced"
    /\ log[3].out = "sent" /\ SpecifiedDecision(3) = "Sent"

(***************************************************************************)
(* C21: an iteration that cannot resolve the channel returns before        *)
(* get_status and changes neither the debounce state (the counter is not   *)
(* incremented and not reset) nor the announce state.  The counter thus    *)
(* counts the iterations that got past the channel lookup: two of them     *)
(* that agree count as consecutive even when iterations without a channel  *)
(* ran in between.                                                         *)
(***************************************************************************)
\* Iterations without a channel ran between entry i and entry i + 1.
SkippedBetween(i) == Observed[i + 1].n > Observed[i].n + 1

C21_SkippedCycleLeavesDebounceAlone ==
    /\ [][(pc \in {"idle", "fetch_channel"} /\ pc' \in {"idle", "fetch_channel"}) =>
            UNCHANGED <<debounce_state, announce_state, log>>]_vars
    /\ [](\A i \in 1..(Len(Observed) - 1) :
            (SkippedBetween(i) /\ Observed[i + 1].cls = Observed[i].cls) =>
                /\ RunLength(Observed, i + 1) = RunLength(Observed, i) + 1
                /\ (RunLength(Observed, i) >= STABLE_THRESHOLD - 1) =>
                        Observed[i + 1].out # "unstable"
                /\ (i + 1 = Len(Observed)) =>
                        _stable_count = RunLength(Observed, i) + 1)

\* With a threshold of 2: the first iteration saw offline, the second found
\* no channel, the third saw offline again, was stable and announced it.
C21_Witness ==
    /\ STABLE_THRESHOLD = 2
    /\ cycles = 3
    /\ Len(log) = 2
    /\ log[1].n = 1 /\ log[1].cls = "offline" /\ log[1].out = "unstable"
    /\ log[2].n = 3 /\ log[2].cls = "offline" /\ log[2].out = "sent"
    /\ _stable_count = 2

====
